---- MODULE Spec2Model ----
(***************************************************************************)
(* KernelWebsocketHandler of jupyter_server/services/kernels/websocket.py: *)
(* admission (pre_get), sub-protocol negotiation (select_subprotocol), the *)
(* connect / relay / disconnect lifecycle (open, on_message, on_close) and  *)
(* the rewrite of inbound execute_request frames.                          *)
(*                                                                         *)
(* Text is a sequence of symbols (each symbol an atomic piece of text), a  *)
(* text frame is a sequence of JSON tokens, and json.loads / json.dumps    *)
(* are a parser and a printer over those tokens.                           *)
(***************************************************************************)
EXTENDS Integers, Sequences, FiniteSets, TLC

\* ------------------------------------------------------------------------
\* Bounds of the model
\* ------------------------------------------------------------------------
NumConns == 2
MaxFrames == 2
ProbeFrames == 1
MaxWritten == 1

\* ------------------------------------------------------------------------
\* JSON values, as json.loads builds them
\*   t = "null" | "str" | "obj";  s = the text of a str;  m = the members of
\*   an obj in insertion order, each [k |-> key text, v |-> value].
\* ------------------------------------------------------------------------
JNull == [t |-> "null", s |-> <<>>, m |-> <<>>]
JStr(text) == [t |-> "str", s |-> text, m |-> <<>>]
JObj(members) == [t |-> "obj", s |-> <<>>, m |-> members]
Member(key, val) == [k |-> key, v |-> val]

\* The value Python calls None (a JSON null, or the default of dict.get).
None == JNull

HasKey(obj, key) == \E i \in 1..Len(obj.m) : obj.m[i].k = key

\* dict.get(key, default)
DictGet(obj, key, default) ==
    IF HasKey(obj, key)
    THEN obj.m[CHOOSE i \in 1..Len(obj.m) : obj.m[i].k = key].v
    ELSE default

\* dict[key] = val : an existing key keeps its position, a new key is appended
DictSet(obj, key, val) ==
    IF HasKey(obj, key)
    THEN JObj([i \in 1..Len(obj.m) |->
                 IF obj.m[i].k = key THEN Member(key, val) ELSE obj.m[i]])
    ELSE JObj(Append(obj.m, Member(key, val)))

\* ------------------------------------------------------------------------
\* JSON text: tokens.  k is the token kind, s the text of a string literal.
\* ------------------------------------------------------------------------
Tok(kind) == [k |-> kind, s |-> <<>>]
TStr(text) == [k |-> "str", s |-> text]
LBrace == Tok("{")
RBrace == Tok("}")
Colon == Tok(":")
Comma == Tok(",")
Space == Tok(" ")
TNull == Tok("null")

RECURSIVE SkipWs(_, _)
SkipWs(toks, i) ==
    IF i <= Len(toks) /\ toks[i] = Space THEN SkipWs(toks, i + 1) ELSE i

ParseFail == [ok |-> FALSE, v |-> JNull, i |-> 0]
ParseOk(val, next) == [ok |-> TRUE, v |-> val, i |-> next]

RECURSIVE ParseValue(_, _), ParseMembers(_, _, _)

\* One JSON value starting at toks[i] (after optional whitespace); i in the
\* result is the index after the value.
ParseValue(toks, i0) ==
    LET i == SkipWs(toks, i0) IN
    IF i > Len(toks) THEN ParseFail
    ELSE IF toks[i] = TNull THEN ParseOk(JNull, i + 1)
    ELSE IF toks[i].k = "str" THEN ParseOk(JStr(toks[i].s), i + 1)
    ELSE IF toks[i] = LBrace THEN
        LET j == SkipWs(toks, i + 1) IN
        IF j <= Len(toks) /\ toks[j] = RBrace
        THEN ParseOk(JObj(<<>>), j + 1)
        ELSE ParseMembers(toks, j, JObj(<<>>))
    ELSE ParseFail

\* The members of an object from toks[i] on, "key": value (, "key": value)* },
\* added to acc as dict(pairs) does: a repeated key keeps the last value.
ParseMembers(toks, i0, acc) ==
    LET i == SkipWs(toks, i0) IN
    IF i > Len(toks) \/ toks[i].k # "str" THEN ParseFail
    ELSE
        LET c == SkipWs(toks, i + 1) IN
        IF c > Len(toks) \/ toks[c] # Colon THEN ParseFail
        ELSE
            LET val == ParseValue(toks, c + 1) IN
            IF ~val.ok THEN ParseFail
            ELSE
                LET acc2 == DictSet(acc, toks[i].s, val.v)
                    e == SkipWs(toks, val.i)
                IN  IF e > Len(toks) THEN ParseFail
                    ELSE IF toks[e] = RBrace THEN ParseOk(acc2, e + 1)
                    ELSE IF toks[e] = Comma THEN ParseMembers(toks, e + 1, acc2)
                    ELSE ParseFail

\* json.loads(text): ok is FALSE where json.loads raises.
Loads(toks) ==
    LET r == ParseValue(toks, 1) IN
    IF r.ok /\ SkipWs(toks, r.i) > Len(toks) THEN r ELSE ParseFail

RECURSIVE Dumps(_), DumpMembers(_, _)

\* json.dumps(value) with the default separators (", " and ": ")
Dumps(val) ==
    IF val.t = "null" THEN <<TNull>>
    ELSE IF val.t = "str" THEN <<TStr(val.s)>>
    ELSE <<LBrace>> \o DumpMembers(val.m, 1) \o <<RBrace>>

DumpMembers(members, i) ==
    IF i > Len(members) THEN <<>>
    ELSE (IF i > 1 THEN <<Comma, Space>> ELSE <<>>)
         \o <<TStr(members[i].k), Colon, Space>> \o Dumps(members[i].v)
         \o DumpMembers(members, i + 1)

\* ------------------------------------------------------------------------
\* Text: sequences of symbols
\* ------------------------------------------------------------------------
Txt(symbol) == <<symbol>>
EmptyText == <<>>

RECURSIVE PyRepr(_), PyReprMembers(_, _)

\* repr(value) of a parsed JSON value (what str() of a dict shows inside)
PyRepr(val) ==
    IF val.t = "null" THEN Txt("None")
    ELSE IF val.t = "str" THEN Txt("'") \o val.s \o Txt("'")
    ELSE Txt("{") \o PyReprMembers(val.m, 1) \o Txt("}")

PyReprMembers(members, i) ==
    IF i > Len(members) THEN <<>>
    ELSE (IF i > 1 THEN Txt(", ") ELSE <<>>)
         \o Txt("'") \o members[i].k \o Txt("'") \o Txt(": ")
         \o PyRepr(members[i].v) \o PyReprMembers(members, i + 1)

\* a formatting that writes nothing for None
PyStr_none_empty(val) ==
    IF val.t = "str" THEN val.s
    ELSE IF val = JNull THEN EmptyText ELSE PyRepr(val)

\* f"{value}": str(value); a str is its own text, None is the text None
PyStr(val) == IF val.t = "str" THEN val.s ELSE PyRepr(val)

\* ------------------------------------------------------------------------
\* Frames: ws_message is a str (text = TRUE, data = its JSON tokens) or
\* bytes (text = FALSE)
\* ------------------------------------------------------------------------
TextFrame(toks) == [text |-> TRUE, data |-> toks]
BinaryFrame(toks) == [text |-> FALSE, data |-> toks]

\* ------------------------------------------------------------------------
\* on_message, lines 80-90: the frame handed on to handle_incoming_message.
\* forwarded is self.request.headers.get('X-Forwarded-Access-Token'):
\* None, or a str.
\* ------------------------------------------------------------------------
\* a rewrite that runs the assignment and the code together on one line
InjectedCode_no_newline(forwarded, code) ==
    Txt("import os") \o Txt("\n")
    \o Txt("os.environ['FORWARDED_ACCESS_TOKEN'] = ") \o Txt("'")
    \o PyStr(forwarded) \o Txt("'")
    \o PyStr(code)

\* a rewrite that leaves alone code that already starts with the assignment
InjectedCode_once(forwarded, code) ==
    LET prefix == Txt("import os") \o Txt("\n")
                  \o Txt("os.environ['FORWARDED_ACCESS_TOKEN'] = ") \o Txt("'")
                  \o PyStr(forwarded) \o Txt("'") \o Txt("\n")
    IN  IF /\ Len(PyStr(code)) >= Len(prefix)
           /\ SubSeq(PyStr(code), 1, Len(prefix)) = prefix
        THEN PyStr(code)
        ELSE prefix \o PyStr(code)

InjectedCode(forwarded, code) ==
    Txt("import os") \o Txt("\n")
    \o Txt("os.environ['FORWARDED_ACCESS_TOKEN'] = ") \o Txt("'")
    \o PyStr(forwarded) \o Txt("'") \o Txt("\n")
    \o PyStr(code)

Interceptor(ws_message, forwarded) ==
    IF ~ws_message.text THEN ws_message
    ELSE
        LET parsed == Loads(ws_message.data) IN
        IF ~parsed.ok THEN ws_message                 \* json.loads raises
        ELSE IF parsed.v.t # "obj" THEN ws_message    \* message.get raises
        ELSE
            LET message == parsed.v
                header == DictGet(message, Txt("header"), JObj(<<>>))
            IN
            IF header.t # "obj" THEN ws_message       \* header.get raises
            ELSE
                LET is_execute_request ==
                        DictGet(header, Txt("msg_type"), None)
                            = JStr(Txt("execute_request"))
                    content == DictGet(message, Txt("content"), JObj(<<>>))
                IN
                IF ~is_execute_request THEN TextFrame(Dumps(message))
                ELSE IF content.t # "obj" THEN ws_message  \* content.get raises
                ELSE
                    LET code == DictGet(content, Txt("code"), None) IN
                    IF code = None THEN TextFrame(Dumps(message))
                    ELSE TextFrame(Dumps(
                            DictSet(message, Txt("content"),
                                DictSet(content, Txt("code"),
                                    JStr(InjectedCode(forwarded, code))))))

\* ------------------------------------------------------------------------
\* select_subprotocol, lines 99-108.  kernel_ws_protocol is None, "" or a
\* str; subprotocols is the list of names the client offers.
\* ------------------------------------------------------------------------
V1Protocol == Txt("v1.kernel.websocket.jupyter.org")

InList(val, list) ==
    val.t = "str" /\ \E i \in 1..Len(list) : list[i] = val.s

\* a negotiation without the branch for the empty preference
select_subprotocol_no_empty(kernel_ws_protocol, subprotocols) ==
    LET preferred_protocol ==
            IF kernel_ws_protocol = None THEN JStr(V1Protocol)
            ELSE kernel_ws_protocol
    IN  IF InList(preferred_protocol, subprotocols)
        THEN preferred_protocol
        ELSE None

select_subprotocol(kernel_ws_protocol, subprotocols) ==
    LET preferred_protocol ==
            IF kernel_ws_protocol = None THEN JStr(V1Protocol)
            ELSE IF kernel_ws_protocol = JStr(EmptyText) THEN None
            ELSE kernel_ws_protocol
    IN  IF InList(preferred_protocol, subprotocols)
        THEN preferred_protocol
        ELSE None

\* ------------------------------------------------------------------------
\* The collaborators pre_get consults
\* ------------------------------------------------------------------------
\* self.current_user: NoUser is None
NoUser == "None"
Users == {NoUser, "alice"}

\* authorizer.is_authorized(handler, user, action, resource): the authorizer's
\* policy is the set of <<user, action, resource>> it permits
is_authorized(policy, user, action, resource) ==
    <<user, action, resource>> \in policy

\* kernel_manager: the kernels that exist; get_kernel raises for any other id
Kernels == {"k1"}
KernelIds == {"k1", "k2"}

\* kernel_websocket_connection_class(parent, websocket_handler, config): the
\* Relay Handle as constructed.  class_config gives what the class decides:
\* kernel_ws_protocol and whether the object has a prepare method.
DefaultSession == Txt("session-default")

NewConnection(kernel, handler, class_config) ==
    [ parent |-> kernel,
      websocket_handler |-> handler,
      kernel_ws_protocol |-> class_config.kernel_ws_protocol,
      has_prepare |-> class_config.has_prepare,
      session |-> DefaultSession,
      prepare_calls |-> 0,
      prepare_state |-> "none",
      prepare_saw |-> <<>>,
      connect_calls |-> 0,
      connect_state |-> "idle",
      disconnect_calls |-> 0,
      incoming |-> <<>>,
      outgoing |-> <<>> ]

\* ------------------------------------------------------------------------
\* State
\* ------------------------------------------------------------------------
Conns == 1..NumConns

VARIABLES
    pc,           \* per handler: where its request stands
    status,       \* per handler: the handshake's outcome ("" while undecided)
    kernel_id,    \* per handler: self.kernel_id
    request,      \* per handler: the request (identity, arguments, headers)
    authorizer,   \* the policy of self.authorizer
    connection,   \* per handler: self.connection, 0 for None / not set
    connections,  \* every Relay Handle constructed so far, by identity
    selected,     \* per handler: what select_subprotocol returned
    lookups,      \* per handler: calls of kernel_manager.get_kernel
    log,          \* per handler: warnings logged
    delivered,    \* per handler: the frames the transport passed to on_message
    written       \* per handler: the frames written to the client

vars == <<pc, status, kernel_id, request, authorizer, connection, connections,
          selected, lookups, log, delivered, written>>

\* a request: current_user, the session_id argument, the
\* X-Forwarded-Access-Token header and the names of Sec-WebSocket-Protocol
Request(user, session_id, token, subprotocols) ==
    [ user |-> user, session_id |-> session_id, token |-> token,
      subprotocols |-> subprotocols ]
NoRequest == Request(NoUser, None, None, <<>>)

Start ==
    /\ pc = [c \in Conns |-> "idle"]
    /\ status = [c \in Conns |-> ""]
    /\ kernel_id = [c \in Conns |-> ""]
    /\ request = [c \in Conns |-> NoRequest]
    /\ connection = [c \in Conns |-> 0]
    /\ connections = <<>>
    /\ selected = [c \in Conns |-> None]
    /\ lookups = [c \in Conns |-> 0]
    /\ log = [c \in Conns |-> <<>>]
    /\ delivered = [c \in Conns |-> <<>>]
    /\ written = [c \in Conns |-> <<>>]

\* ------------------------------------------------------------------------
\* pre_get, lines 38-62, up to the await of connection.prepare()
\* ------------------------------------------------------------------------
\* a handler that lets a request without identity through
Unauthenticated_never(user) == FALSE

\* line 42: user is None
Unauthenticated(user) == user = NoUser

\* a handler that asks the authorizer about the wrong action
Authorized_read(policy, user) == is_authorized(policy, user, "read", "kernels")

\* line 47: the authorizer's answer for "execute" on "kernels"
Authorized(policy, user) == is_authorized(policy, user, "execute", "kernels")

\* a handler that goes on after a failed lookup
get_kernel_never_raises(kid) == FALSE

\* line 50: kernel_manager.get_kernel(kernel_id) raises for an unknown kernel
get_kernel_raises(kid) == kid \notin Kernels

\* a test for the presence of the argument instead of its truthiness
HasSessionId_not_none(session_id) == session_id # None

\* line 55: Python truthiness of get_argument("session_id", None); None and
\* "" are false
HasSessionId(session_id) == session_id # None /\ session_id # JStr(EmptyText)

\* a pre_get that never assigns the session token
WithSession_ignored(made, session_id) == made

\* lines 55-56: the session token of the connection after the branch
WithSession(made, session_id) ==
    IF HasSessionId(session_id)
    THEN [made EXCEPT !.session = session_id.s]
    ELSE made

\* lines 61-62: prepare is called when the connection has one; prepare_saw
\* is the session token the object holds when it is called
WithPrepare(made) ==
    IF made.has_prepare
    THEN [made EXCEPT !.prepare_calls = @ + 1, !.prepare_state = "pending",
                      !.prepare_saw = <<made.session>>]
    ELSE made

\* the handler raises before the handshake is accepted
Reject(c, code) ==
    /\ pc' = [pc EXCEPT ![c] = "rejected"]
    /\ status' = [status EXCEPT ![c] = code]

pre_get(c, kid, req, class_config) ==
    IF Unauthenticated(req.user) THEN
        /\ Reject(c, "403")
        /\ log' = [log EXCEPT ![c] =
                     Append(@, "Couldn't authenticate WebSocket connection")]
        /\ UNCHANGED <<connection, connections, lookups>>
    ELSE IF ~Authorized(authorizer, req.user) THEN
        /\ Reject(c, "403")
        /\ UNCHANGED <<connection, connections, lookups, log>>
    ELSE IF get_kernel_raises(kid) THEN
        /\ Reject(c, "error")
        /\ lookups' = [lookups EXCEPT ![c] = @ + 1]
        /\ UNCHANGED <<connection, connections, log>>
    ELSE
        LET made == NewConnection(kid, c, class_config) IN
        /\ lookups' = [lookups EXCEPT ![c] = @ + 1]
        /\ connections' =
              Append(connections, WithPrepare(WithSession(made, req.session_id)))
        /\ connection' = [connection EXCEPT ![c] = Len(connections) + 1]
        /\ log' = IF HasSessionId(req.session_id) THEN log
                  ELSE [log EXCEPT ![c] = Append(@, "No session ID specified")]
        /\ pc' = [pc EXCEPT ![c] =
                    IF made.has_prepare THEN "prepare" ELSE "admitted"]
        /\ UNCHANGED status

\* get, lines 64-67: a request arrives at handler c
get(c, kid, req, class_config) ==
    /\ pc[c] = "idle"
    /\ kernel_id' = [kernel_id EXCEPT ![c] = kid]
    /\ request' = [request EXCEPT ![c] = req]
    /\ pre_get(c, kid, req, class_config)
    /\ UNCHANGED <<authorizer, selected, delivered, written>>

\* a pre_get that goes on when prepare raised
prepare_returns_swallowed(c, ok) ==
    /\ pc[c] = "prepare"
    /\ pc' = [pc EXCEPT ![c] = "admitted"]
    /\ connections' = [connections EXCEPT ![connection[c]].prepare_state =
                          IF ok THEN "done" ELSE "failed"]
    /\ UNCHANGED <<status, kernel_id, request, authorizer, connection, selected,
                   lookups, log, delivered, written>>

\* line 62: the awaited connection.prepare() returns or raises
prepare_returns(c, ok) ==
    /\ pc[c] = "prepare"
    /\ IF ok
       THEN pc' = [pc EXCEPT ![c] = "admitted"] /\ UNCHANGED status
       ELSE Reject(c, "error")
    /\ connections' = [connections EXCEPT ![connection[c]].prepare_state =
                          IF ok THEN "done" ELSE "failed"]
    /\ UNCHANGED <<kernel_id, request, authorizer, connection, selected,
                   lookups, log, delivered, written>>

\* a negotiation that stores the protocol it settled on in the connection
handshake_stores_preference(c, valid) ==
    /\ pc[c] = "admitted"
    /\ IF valid
       THEN /\ selected' = [selected EXCEPT ![c] =
                   select_subprotocol(
                       connections[connection[c]].kernel_ws_protocol,
                       request[c].subprotocols)]
            /\ connections' =
                  [connections EXCEPT ![connection[c]].kernel_ws_protocol =
                     IF @ = None THEN JStr(V1Protocol)
                     ELSE IF @ = JStr(EmptyText) THEN None ELSE @]
            /\ pc' = [pc EXCEPT ![c] = "accepted"]
            /\ status' = [status EXCEPT ![c] = "101"]
       ELSE /\ Reject(c, "400")
            /\ UNCHANGED <<selected, connections>>
    /\ UNCHANGED <<kernel_id, request, authorizer, connection,
                   lookups, log, delivered, written>>

\* a get that starts the handshake without awaiting pre_get
handshake_unawaited(c, valid) ==
    /\ pc[c] \in {"prepare", "admitted"}
    /\ IF valid
       THEN /\ selected' = [selected EXCEPT ![c] =
                   select_subprotocol(
                       connections[connection[c]].kernel_ws_protocol,
                       request[c].subprotocols)]
            /\ pc' = [pc EXCEPT ![c] = "accepted"]
            /\ status' = [status EXCEPT ![c] = "101"]
       ELSE /\ Reject(c, "400")
            /\ UNCHANGED selected
    /\ UNCHANGED <<kernel_id, request, authorizer, connection, connections,
                   lookups, log, delivered, written>>

\* get, line 68: super().get() performs the handshake; it calls
\* select_subprotocol with the names the client offers and accepts, or
\* refuses a request that is no valid upgrade
handshake(c, valid) ==
    /\ pc[c] = "admitted"
    /\ IF valid
       THEN /\ selected' = [selected EXCEPT ![c] =
                   select_subprotocol(
                       connections[connection[c]].kernel_ws_protocol,
                       request[c].subprotocols)]
            /\ pc' = [pc EXCEPT ![c] = "accepted"]
            /\ status' = [status EXCEPT ![c] = "101"]
       ELSE /\ Reject(c, "400")
            /\ UNCHANGED selected
    /\ UNCHANGED <<kernel_id, request, authorizer, connection, connections,
                   lookups, log, delivered, written>>

\* line 74: connection.connect() is called
connect(made) ==
    [made EXCEPT !.connect_calls = @ + 1, !.connect_state = "pending"]

\* an open that constructs a connection of its own and connects that one
open_new_connection(c) ==
    /\ pc[c] = "accepted"
    /\ connections' =
          Append(connections,
                 connect(NewConnection(kernel_id[c], c,
                     [kernel_ws_protocol |-> None, has_prepare |-> FALSE])))
    /\ connection' = [connection EXCEPT ![c] = Len(connections) + 1]
    /\ pc' = [pc EXCEPT ![c] = "connecting"]
    /\ UNCHANGED <<status, kernel_id, request, authorizer, selected,
                   lookups, log, delivered, written>>

\* open, lines 70-74, up to the await of connection.connect()
open(c) ==
    /\ pc[c] = "accepted"
    /\ connections' = [connections EXCEPT ![connection[c]] = connect(@)]
    /\ pc' = [pc EXCEPT ![c] = "connecting"]
    /\ UNCHANGED <<status, kernel_id, request, authorizer, connection, selected,
                   lookups, log, delivered, written>>

\* an open that calls connect a second time when the first call raised
connect_returns_retry(c, ok) ==
    /\ pc[c] = "connecting"
    /\ IF ~ok /\ connections[connection[c]].connect_calls < 2
       THEN /\ connections' = [connections EXCEPT ![connection[c]] = connect(@)]
            /\ UNCHANGED pc
       ELSE /\ pc' = [pc EXCEPT ![c] = IF ok THEN "active" ELSE "failed"]
            /\ connections' = [connections EXCEPT ![connection[c]].connect_state =
                                  IF ok THEN "done" ELSE "failed"]
    /\ UNCHANGED <<status, kernel_id, request, authorizer, connection,
                   selected, lookups, log, delivered, written>>

\* line 74: the awaited connect() returns (open returns) or raises (open raises)
connect_returns(c, ok) ==
    /\ pc[c] = "connecting"
    /\ pc' = [pc EXCEPT ![c] = IF ok THEN "active" ELSE "failed"]
    /\ connections' = [connections EXCEPT ![connection[c]].connect_state =
                          IF ok THEN "done" ELSE "failed"]
    /\ UNCHANGED <<status, kernel_id, request, authorizer, connection,
                   selected, lookups, log, delivered, written>>

\* a credential kept in state that all handlers share
ForwardedAccessToken_shared(c) == request[1].token

\* line 86: the credential read when the frame is rewritten
ForwardedAccessToken(c) == request[c].token

\* line 92: connection.handle_incoming_message(ws_message)
handle_incoming_message(made, ws_message) ==
    [made EXCEPT !.incoming = Append(@, ws_message)]

\* an on_message that hands on text frames only
on_message_text_only(c, ws_message) ==
    /\ pc[c] = "active"
    /\ delivered' = [delivered EXCEPT ![c] = Append(@, ws_message)]
    /\ connections' =
          IF ws_message.text
          THEN [connections EXCEPT ![connection[c]] =
                  handle_incoming_message(@,
                      Interceptor(ws_message, ForwardedAccessToken(c)))]
          ELSE connections
    /\ UNCHANGED <<pc, status, kernel_id, request, authorizer, connection,
                   selected, lookups, log, written>>

\* on_message, lines 76-92: the transport delivers frames once open returned.
\* A frame handed over after on_close finds self.connection None: line 92
\* raises and nothing is forwarded.
on_message(c, ws_message) ==
    /\ pc[c] \in {"active", "closed"}
    /\ delivered' = [delivered EXCEPT ![c] = Append(@, ws_message)]
    /\ connections' =
          IF connection[c] = 0
          THEN connections
          ELSE [connections EXCEPT ![connection[c]] =
                  handle_incoming_message(@,
                      Interceptor(ws_message, ForwardedAccessToken(c)))]
    /\ UNCHANGED <<pc, status, kernel_id, request, authorizer, connection,
                   selected, lookups, log, written>>

\* an on_close that forgets the connection
disconnect_skipped(made) == made

\* line 96: connection.disconnect()
disconnect(made) == [made EXCEPT !.disconnect_calls = @ + 1]

\* an on_close that keeps self.connection after the disconnect
on_close_keeps_connection(c) ==
    /\ pc[c] \in {"connecting", "failed", "active"}
    /\ connections' = [connections EXCEPT ![connection[c]] = disconnect(@)]
    /\ pc' = [pc EXCEPT ![c] = "closed"]
    /\ UNCHANGED <<status, kernel_id, request, authorizer, connection, selected,
                   lookups, log, delivered, written>>

\* on_close, lines 94-97: the transport closes an accepted connection, while
\* connect is pending, after open raised, or while relaying; once per handler
on_close(c) ==
    /\ pc[c] \in {"connecting", "failed", "active"}
    /\ connections' = [connections EXCEPT ![connection[c]] = disconnect(@)]
    /\ connection' = [connection EXCEPT ![c] = 0]
    /\ pc' = [pc EXCEPT ![c] = "closed"]
    /\ UNCHANGED <<status, kernel_id, request, authorizer, selected, lookups,
                   log, delivered, written>>

\* the Relay Handle writes a kernel message to its client with the handler's
\* write_message; the handler inherits it and defines nothing on that path
write_message(c, ws_message) ==
    /\ pc[c] = "active"
    /\ connections' = [connections EXCEPT ![connection[c]].outgoing =
                          Append(@, ws_message)]
    /\ written' = [written EXCEPT ![c] = Append(@, ws_message)]
    /\ UNCHANGED <<pc, status, kernel_id, request, authorizer, connection,
                   selected, lookups, log, delivered>>

\* ------------------------------------------------------------------------
\* Inputs
\* ------------------------------------------------------------------------
\* what an authorizer may permit
Permissions == { <<"alice", "execute", "kernels">>,
                 <<"alice", "read", "kernels">>,
                 <<NoUser, "execute", "kernels">> }
Policies == SUBSET Permissions
PermitAll == Permissions

\* get_argument("session_id", None): absent, empty, or a value
SessionArgs == {None, JStr(EmptyText), JStr(Txt("s1"))}

\* the X-Forwarded-Access-Token header: absent, or a value
TokA == JStr(Txt("TOK"))
TokB == JStr(Txt("TOK2"))
LeanTokens == {TokA, TokB}
Tokens == {None, TokA, JStr(Txt("None"))}

\* connection classes
ClassConfig(protocol, prepare) ==
    [kernel_ws_protocol |-> protocol, has_prepare |-> prepare]
Preferences == {None, JStr(EmptyText), JStr(V1Protocol), JStr(Txt("x"))}
Classes == {ClassConfig(p, h) : p \in Preferences, h \in BOOLEAN}
DefaultClass == ClassConfig(None, FALSE)

\* the names a client offers in Sec-WebSocket-Protocol
Offers == { <<>>, <<V1Protocol>>, <<Txt("x")>>, <<Txt("x"), V1Protocol>>,
            <<Txt("y")>>, <<EmptyText>> }

\* JSON text as a browser writes it (JSON.stringify): no whitespace
Compact(val) == SelectSeq(Dumps(val), LAMBDA tok : tok # Space)

Absent == [t |-> "absent", s |-> <<>>, m |-> <<>>]
Field(key, val) == IF val = Absent THEN <<>> ELSE <<Member(Txt(key), val)>>
Envelope(header, content, rest) ==
    JObj(Field("header", header) \o Field("content", content) \o rest)
MsgType(name) == JObj(<<Member(Txt("msg_type"), JStr(Txt(name)))>>)
Code(val) == JObj(<<Member(Txt("code"), val)>>)

ExecuteRequest == Envelope(MsgType("execute_request"), Code(JStr(Txt("print(1)"))), <<>>)
KernelInfoRequest == Envelope(MsgType("kernel_info_request"), JObj(<<>>), <<>>)

\* frames of the lifecycle runs
ExecFrame == TextFrame(Compact(ExecuteRequest))
RelayFrames == { ExecFrame,
                 TextFrame(Dumps(KernelInfoRequest)),
                 BinaryFrame(Compact(ExecuteRequest)) }

\* frames of the interceptor runs
Headers == { Absent, JNull, JStr(Txt("h")), JObj(<<>>),
             MsgType("execute_request"), MsgType("kernel_info_request"),
             JObj(<<Member(Txt("msg_id"), JStr(Txt("m1"))),
                    Member(Txt("msg_type"), JStr(Txt("execute_request")))>>) }
Contents == { Absent, JNull, JStr(Txt("c")), JObj(<<>>),
              Code(JNull), Code(JStr(EmptyText)), Code(JStr(Txt("print(1)"))),
              Code(JObj(<<>>)),
              Code(JStr(InjectedCode(TokA, JStr(Txt("print(1)"))))),
              JObj(<<Member(Txt("silent"), JStr(Txt("no"))),
                     Member(Txt("code"), JStr(Txt("print(1)")))>>) }
Channel == <<Member(Txt("channel"), JStr(Txt("shell")))>>
Envelopes ==
    { Envelope(h, c, <<>>) : h \in Headers, c \in Contents }
    \cup { Envelope(MsgType("execute_request"), c, Channel) : c \in Contents }

Malformed == { <<>>, <<LBrace>>, <<LBrace, TStr(Txt("header")), RBrace>>,
               <<TNull, TNull>>, <<RBrace>>,
               <<LBrace, TStr(Txt("header")), Colon, TNull, Comma, RBrace>> }
\* a repeated key: json.loads keeps the last value
Repeated == { <<LBrace, TStr(Txt("header")), Colon, TNull, Comma,
                TStr(Txt("header")), Colon>>
              \o Compact(MsgType("execute_request")) \o <<Comma,
                TStr(Txt("content")), Colon>>
              \o Compact(Code(JStr(Txt("print(1)")))) \o <<RBrace>> }

Frames ==
    {TextFrame(Compact(v)) : v \in Envelopes \cup {JNull, JStr(Txt("text"))}}
    \cup {TextFrame(Dumps(v)) : v \in Envelopes}
    \cup {TextFrame(toks) : toks \in Malformed \cup Repeated}
    \cup {BinaryFrame(Compact(ExecuteRequest)), BinaryFrame(<<>>),
          BinaryFrame(<<LBrace>>)}

\* ------------------------------------------------------------------------
\* Specifications
\* ------------------------------------------------------------------------
Requests ==
    { Request(u, sid, tok, offer) :
        u \in Users, sid \in SessionArgs, tok \in {TokA}, offer \in Offers }
PlainRequest(user, token) == Request(user, JStr(Txt("s1")), token, <<V1Protocol>>)

\* Several connections side by side
Init == Start /\ authorizer = PermitAll

Next ==
    \/ \E c \in Conns, token \in LeanTokens, user \in Users :
          get(c, "k1", PlainRequest(user, token), DefaultClass)
    \/ \E c \in Conns : handshake(c, TRUE)
    \/ \E c \in Conns : open(c)
    \/ \E c \in Conns, ok \in BOOLEAN : connect_returns(c, ok)
    \/ \E c \in Conns :
          /\ pc[c] = "active" /\ Len(delivered[c]) < MaxFrames
          /\ on_message(c, ExecFrame)
    \/ \E c \in Conns : on_close(c)

Spec == Init /\ [][Next]_vars

\* One connection, every admission and negotiation input
InitConn == Start /\ authorizer \in Policies

NextConn ==
    \/ \E kid \in KernelIds, req \in Requests, cls \in Classes :
          get(1, kid, req, cls)
    \/ \E ok \in BOOLEAN : prepare_returns(1, ok)
    \/ \E valid \in BOOLEAN : handshake(1, valid)
    \/ open(1)
    \/ \E ok \in BOOLEAN : connect_returns(1, ok)
    \/ \E f \in RelayFrames :
          /\ pc[1] = "active" /\ Len(delivered[1]) < MaxFrames
          /\ on_message(1, f)
    \/ on_close(1)

SpecConn == InitConn /\ [][NextConn]_vars

\* the same, with the transport's promise that a connection whose open
\* raised is closed and its on_close run
SpecConnLive == SpecConn /\ WF_vars(pc[1] = "failed" /\ on_close(1))

\* One connection, every frame
NextInterceptor ==
    \/ \E token \in Tokens : get(1, "k1", PlainRequest("alice", token), DefaultClass)
    \/ handshake(1, TRUE)
    \/ open(1)
    \/ connect_returns(1, TRUE)
    \/ \E f \in Frames :
          /\ pc[1] = "active" /\ Len(delivered[1]) < ProbeFrames
          /\ on_message(1, f)
    \/ on_close(1)

SpecInterceptor == Init /\ [][NextInterceptor]_vars

\* Several connections negotiating, every preference and every offer
NextNegotiator ==
    \/ \E c \in Conns, preferred \in Preferences, offer \in Offers :
          get(c, "k1", Request("alice", JStr(Txt("s1")), TokA, offer),
              ClassConfig(preferred, FALSE))
    \/ \E c \in Conns : handshake(c, TRUE)

SpecNegotiator == Init /\ [][NextNegotiator]_vars

\* One connection relaying: frames in both directions, and frames that
\* arrive after the close
PrefixedFrame ==
    TextFrame(Compact(Envelope(MsgType("execute_request"),
        Code(JStr(InjectedCode(TokA, JStr(Txt("print(1)"))))), <<>>)))
InboundFrames == RelayFrames \cup {PrefixedFrame}
OutboundFrames == { TextFrame(Dumps(ExecuteRequest)),
                    BinaryFrame(Compact(KernelInfoRequest)) }

NextRelay ==
    \/ \E token \in LeanTokens :
          get(1, "k1", PlainRequest("alice", token), DefaultClass)
    \/ handshake(1, TRUE)
    \/ open(1)
    \/ \E ok \in BOOLEAN : connect_returns(1, ok)
    \/ \E f \in InboundFrames :
          Len(delivered[1]) < MaxFrames /\ on_message(1, f)
    \/ \E f \in OutboundFrames :
          Len(written[1]) < MaxWritten /\ write_message(1, f)
    \/ on_close(1)

SpecRelay == Init /\ [][NextRelay]_vars

\* ------------------------------------------------------------------------
\* Properties
\* ------------------------------------------------------------------------
\* the Relay Handles constructed for handler c, by identity
HandlesOf(c) ==
    {i \in 1..Len(connections) : connections[i].websocket_handler = c}
TheHandle(c) == connections[CHOOSE i \in HandlesOf(c) : TRUE]
Offered(c, name) ==
    \E i \in 1..Len(request[c].subprotocols) : request[c].subprotocols[i] = name

\* what "no Relay Handle, no backend resource touched" means for handler c
NothingConstructed(c) ==
    /\ connection[c] = 0
    /\ HandlesOf(c) = {}
    /\ delivered[c] = <<>>

\* C1: a request whose identity cannot be resolved is rejected with 403; the
\* kernel manager is not consulted, no Relay Handle is constructed, so connect
\* is never invoked.
C1_UnauthenticatedRejected ==
    \A c \in Conns :
        (pc[c] # "idle" /\ request[c].user = NoUser) =>
            /\ pc[c] = "rejected"
            /\ status[c] = "403"
            /\ lookups[c] = 0
            /\ NothingConstructed(c)

\* the case of C1 where everything but the identity would let the request in
C1_Witness ==
    \E c \in Conns :
        /\ pc[c] = "rejected"
        /\ request[c].user = NoUser
        /\ <<NoUser, "execute", "kernels">> \in authorizer
        /\ kernel_id[c] \in Kernels

\* C2: a request with an identity that the authorizer denies "execute" on
\* "kernels" is rejected with 403 before the kernel is resolved; no Relay Handle
\* is constructed and connect is never attempted.
C2_UnauthorizedRejected ==
    \A c \in Conns :
        ( /\ pc[c] # "idle"
          /\ request[c].user # NoUser
          /\ <<request[c].user, "execute", "kernels">> \notin authorizer ) =>
            /\ pc[c] = "rejected"
            /\ status[c] = "403"
            /\ lookups[c] = 0
            /\ NothingConstructed(c)

\* the case of C2 where the user holds another permission on kernels
C2_Witness ==
    \E c \in Conns :
        /\ pc[c] = "rejected"
        /\ request[c].user = "alice"
        /\ <<"alice", "execute", "kernels">> \notin authorizer
        /\ <<"alice", "read", "kernels">> \in authorizer
        /\ kernel_id[c] \in Kernels

\* C3: select_subprotocol returns the version 1 name when the preference is
\* absent and the client offers it, none when the preference is the empty
\* string, the preference when it is a non-empty string the client offers, and
\* none otherwise; the result is none or one of the offered names.
C3_SelectSubprotocol ==
    \A c \in Conns :
        status[c] = "101" =>
            LET p == TheHandle(c).kernel_ws_protocol
                r == selected[c]
            IN  /\ (p = None /\ Offered(c, V1Protocol)) => r = JStr(V1Protocol)
                /\ (p = None /\ ~Offered(c, V1Protocol)) => r = None
                /\ p = JStr(EmptyText) => r = None
                /\ (p.t = "str" /\ p.s # EmptyText /\ Offered(c, p.s)) => r = p
                /\ (p.t = "str" /\ p.s # EmptyText /\ ~Offered(c, p.s)) => r = None
                /\ r = None \/ (r.t = "str" /\ Offered(c, r.s))

\* the default is selected for an absent preference
C3_Witness ==
    \E c \in Conns :
        /\ status[c] = "101"
        /\ TheHandle(c).kernel_ws_protocol = None
        /\ selected[c] = JStr(V1Protocol)

\* C4 as amended: a connection whose handshake was accepted has had exactly
\* one disconnect call once it is closed, whether the transport closed while
\* connect was pending, after connect failed or while relaying, and none
\* before; a connection refused before the handshake has had none.
C4_OneDisconnectAfterAccept ==
    \A c \in Conns :
        /\ pc[c] = "closed" =>
              /\ HandlesOf(c) # {}
              /\ TheHandle(c).disconnect_calls = 1
        /\ pc[c] # "closed" =>
              \A i \in HandlesOf(c) : connections[i].disconnect_calls = 0

\* closed after connect failed
C4_Witness ==
    \E c \in Conns :
        /\ pc[c] = "closed"
        /\ TheHandle(c).connect_state = "failed"
        /\ TheHandle(c).disconnect_calls = 1

\* C4 as claimed: every connection that has reached Closed (the transport
\* closed, or admission or connect failed) has had exactly one disconnect call
\* on its Relay Handle.
C4_OneDisconnectPerConnection ==
    \A c \in Conns :
        (pc[c] \in {"closed", "rejected"} /\ HandlesOf(c) # {}) =>
            TheHandle(c).disconnect_calls = 1

\* C10: when the kernel manager does not know the kernel, admission fails: no
\* Relay Handle is constructed or stored, no session token is set, the
\* handshake is not accepted, and connect, send and disconnect never happen.
C10_SessionNotFound ==
    \A c \in Conns :
        ( /\ pc[c] # "idle"
          /\ request[c].user # NoUser
          /\ <<request[c].user, "execute", "kernels">> \in authorizer
          /\ kernel_id[c] \notin Kernels ) =>
            /\ pc[c] = "rejected"
            /\ status[c] \notin {"", "101"}
            /\ NothingConstructed(c)

\* the lookup was made and failed
C10_Witness ==
    \E c \in Conns :
        /\ pc[c] = "rejected"
        /\ kernel_id[c] = "k2"
        /\ lookups[c] = 1
        /\ status[c] = "error"

\* ------------------------------------------------------------------------
\* Properties of the frames handed to the Relay Handle
\* ------------------------------------------------------------------------
\* the j-th frame delivered to handler c, and the j-th frame its Relay Handle
\* received
In(c, j) == delivered[c][j]
Out(c, j) == TheHandle(c).incoming[j]
Relayed(c) == IF HandlesOf(c) = {} THEN {} ELSE 1..Len(TheHandle(c).incoming)

\* the frame is text that parses to an object
ParsesToObject(f) ==
    f.text /\ Loads(f.data).ok /\ Loads(f.data).v.t = "obj"
TopLevel(f) == Loads(f.data).v
HeaderOf(f) == DictGet(TopLevel(f), Txt("header"), Absent)
ContentOf(f) == DictGet(TopLevel(f), Txt("content"), Absent)

\* a structured envelope: a header object and a content object
IsEnvelope(f) ==
    /\ ParsesToObject(f)
    /\ HeaderOf(f).t = "obj"
    /\ ContentOf(f).t = "obj"
MsgTypeOf(f) == DictGet(HeaderOf(f), Txt("msg_type"), Absent)
CodeOf(f) == DictGet(ContentOf(f), Txt("code"), Absent)

\* eligible for the rewrite: an execute_request whose code is present, not null
Eligible(f) ==
    /\ IsEnvelope(f)
    /\ MsgTypeOf(f) = JStr(Txt("execute_request"))
    /\ CodeOf(f) \notin {Absent, JNull}

\* binary, not parseable, or parsed but unusable for the rewrite rule
Unusable(f) ==
    \/ ~f.text
    \/ ~Loads(f.data).ok
    \/ TopLevel(f).t # "obj"
    \/ HeaderOf(f).t \notin {"absent", "obj"}
    \/ ContentOf(f).t \notin {"absent", "obj"}

\* C5 as claimed: a frame that is binary, or text that does not parse, or
\* that parses but is unusable for the rewrite rule (top level not an object,
\* header or content not an object, content null) reaches the Relay Handle
\* identical to the frame the transport delivered.
C5_FailOpenPassthrough ==
    \A c \in Conns : \A j \in Relayed(c) :
        Unusable(In(c, j)) => Out(c, j) = In(c, j)

\* the two statements that assign the credential, a newline, the code
ExpectedCode(credential, code) ==
    << "import os", "\n",
       "os.environ['FORWARDED_ACCESS_TOKEN'] = ", "'" >>
    \o credential \o << "'", "\n" >> \o code

\* the members of two objects agree, except for the value under key
SameBut(a, b, key) ==
    /\ a.t = "obj" /\ b.t = "obj"
    /\ Len(a.m) = Len(b.m)
    /\ \A i \in 1..Len(a.m) :
          /\ a.m[i].k = b.m[i].k
          /\ a.m[i].k # key => a.m[i].v = b.m[i].v

\* C6: an execute_request with code present and not null (the empty string
\* included), on a connection whose forwarded-credential header is T, reaches
\* the Relay Handle as an envelope whose content.code is the two statements
\* assigning T, a newline, and the original code; msg_type and every other
\* field are those of the input.  (The code field holds source text.)
C6_RewriteCorrect ==
    \A c \in Conns : \A j \in Relayed(c) :
        ( /\ Eligible(In(c, j))
          /\ CodeOf(In(c, j)).t = "str"
          /\ request[c].token.t = "str" ) =>
            /\ ParsesToObject(Out(c, j))
            /\ SameBut(TopLevel(Out(c, j)), TopLevel(In(c, j)), Txt("content"))
            /\ HeaderOf(Out(c, j)) = HeaderOf(In(c, j))
            /\ SameBut(ContentOf(Out(c, j)), ContentOf(In(c, j)), Txt("code"))
            /\ CodeOf(Out(c, j)) =
                  JStr(ExpectedCode(request[c].token.s, CodeOf(In(c, j)).s))

\* an execute_request with empty code, rewritten
C6_Witness ==
    \E c \in Conns : \E j \in Relayed(c) :
        /\ Eligible(In(c, j))
        /\ CodeOf(In(c, j)) = JStr(EmptyText)
        /\ request[c].token = TokA
        /\ CodeOf(Out(c, j)) = JStr(ExpectedCode(Txt("TOK"), EmptyText))

\* C7 as claimed: a text frame that parses as an envelope and is not eligible
\* for the rewrite (msg_type is not execute_request, or content.code is absent
\* or null) reaches the Relay Handle unchanged, byte for byte.
C7_IneligibleUnchanged ==
    \A c \in Conns : \A j \in Relayed(c) :
        (IsEnvelope(In(c, j)) /\ ~Eligible(In(c, j))) => Out(c, j) = In(c, j)

\* C8: the frames the Relay Handle received are, in number and in order, the
\* Interceptor's outputs for the frames the transport delivered.
C8_InboundOrder ==
    \A c \in Conns :
        IF HandlesOf(c) = {} THEN delivered[c] = <<>>
        ELSE /\ Len(TheHandle(c).incoming) = Len(delivered[c])
             /\ \A j \in 1..Len(delivered[c]) :
                   Out(c, j) = Interceptor(In(c, j), request[c].token)

\* a binary frame relayed after a text frame
C8_Witness ==
    \E c \in Conns :
        /\ Len(delivered[c]) = 2
        /\ In(c, 1).text /\ ~In(c, 2).text
        /\ Out(c, 1).text /\ Out(c, 2) = In(c, 2)

\* ------------------------------------------------------------------------
\* Isolation between connections
\* ------------------------------------------------------------------------
\* what handler d holds, and the Relay Handles constructed for it
Context(d) ==
    << pc[d], status[d], kernel_id[d], request[d], connection[d], selected[d],
       lookups[d], log[d], delivered[d], written[d] >>
OwnedBy(d) == SelectSeq(connections, LAMBDA made : made.websocket_handler = d)

\* no Relay Handle is referenced by two handlers, and a handler references a
\* Relay Handle constructed for it
NoSharedHandle ==
    \A c \in Conns :
        connection[c] # 0 =>
            /\ connection[c] \in HandlesOf(c)
            /\ \A d \in Conns \ {c} : connection[d] # connection[c]

\* the credential in a rewritten frame is the one of the same handler's request
OwnCredential ==
    \A c \in Conns : \A j \in Relayed(c) :
        Eligible(In(c, j)) =>
            CodeOf(Out(c, j)) =
                JStr(ExpectedCode(PyStr(request[c].token), PyStr(CodeOf(In(c, j)))))

\* C9: every step belongs to one connection and leaves the context and the
\* Relay Handle of every other connection unchanged; no Relay Handle is
\* referenced by two contexts; the credential injected into a frame is the
\* forwarded-credential header of the same connection's request.
C9_Isolation ==
    /\ [](NoSharedHandle /\ OwnCredential)
    /\ [][\E c \in Conns : \A d \in Conns \ {c} :
             Context(d)' = Context(d) /\ OwnedBy(d)' = OwnedBy(d)]_vars

\* two connections with different credentials, each with a rewritten frame
C9_Witness ==
    \E c \in Conns : \E d \in Conns \ {c} :
        /\ request[c].token # request[d].token
        /\ Relayed(c) # {} /\ Relayed(d) # {}
        /\ pc[c] = "active" /\ pc[d] = "closed"

\* ------------------------------------------------------------------------
\* the lifecycle state of handler c: Idle 0, Connecting 1 (also while the
\* transport closes a connection whose connect raised), Active 2, Closed 3
Stage(c) ==
    CASE pc[c] \in {"idle", "prepare", "admitted", "accepted"} -> 0
      [] pc[c] \in {"connecting", "failed"} -> 1
      [] pc[c] = "active" -> 2
      [] OTHER -> 3
ConnectCalls(c) == IF HandlesOf(c) = {} THEN 0 ELSE TheHandle(c).connect_calls
ConnectFailed(c) == HandlesOf(c) # {} /\ TheHandle(c).connect_state = "failed"

\* C11: a connection moves only forward through Idle, Connecting, Active,
\* Closed.  connect is invoked at most once per connection; after a connect
\* failure connect is not invoked again, the connection is never Active and
\* it reaches Closed; a Closed connection stays Closed.
C11_LifecycleMonotone ==
    /\ [](\A c \in Conns :
            /\ ConnectCalls(c) <= 1
            /\ ConnectFailed(c) => pc[c] \in {"failed", "closed"})
    /\ [][\A c \in Conns :
            /\ Stage(c)' >= Stage(c)
            /\ ConnectFailed(c) =>
                  ConnectCalls(c)' = ConnectCalls(c) /\ pc'[c] # "active"
            /\ Stage(c) = 3 => pc'[c] = pc[c]]_vars
    /\ \A c \in Conns : (pc[c] = "failed") ~> (pc[c] = "closed")

\* connect raised and the connection went on to Closed
C11_Witness ==
    pc[1] = "closed" /\ ConnectFailed(1) /\ ConnectCalls(1) = 1

\* ------------------------------------------------------------------------
\* a step hands a frame to Relay Handle i
Sends(i) == Len(connections'[i].incoming) > Len(connections[i].incoming)

\* C12: handle_incoming_message is invoked on a Relay Handle only while its
\* connection is Active: never before its connect completed successfully and
\* never after its disconnect was called; a frame that arrives after on_close
\* is not forwarded.
C12_SendOnlyWhenActive ==
    /\ [](\A i \in 1..Len(connections) :
            connections[i].incoming # <<>> =>
                connections[i].connect_state = "done")
    /\ [][\A i \in 1..Len(connections) :
            Sends(i) =>
                /\ connections[i].connect_state = "done"
                /\ connections[i].disconnect_calls = 0
                /\ pc[connections[i].websocket_handler] = "active"]_vars
    /\ [][\A c \in Conns :
            pc[c] = "closed" /\ delivered'[c] # delivered[c] =>
                connections' = connections]_vars

\* one frame was forwarded while Active and a later one arrived after on_close
C12_Witness ==
    /\ pc[1] = "closed"
    /\ Len(delivered[1]) = 2
    /\ Len(TheHandle(1).incoming) = 1
    /\ TheHandle(1).disconnect_calls = 1

\* ------------------------------------------------------------------------
\* the admission of handler c failed: pre_get raised (lines 44, 48, 50, 62)
AdmissionFailed(c) == pc[c] = "rejected" /\ status[c] \in {"403", "error"}
\* the checks of lines 41-50 passed for the request of handler c
ChecksPassed(c) ==
    /\ ~Unauthenticated(request[c].user)
    /\ Authorized(authorizer, request[c].user)
    /\ ~get_kernel_raises(kernel_id[c])
\* at most one Relay Handle per context, held by it until the disconnect and
\* not after; disconnect only after connect was invoked on the same handle
HandleHeldOnce(c) ==
    /\ Cardinality(HandlesOf(c)) <= 1
    /\ connection[c] # 0 => connection[c] \in HandlesOf(c)
    /\ \A i \in HandlesOf(c) :
          /\ connections[i].disconnect_calls > 0 => connection[c] = 0
          /\ connections[i].disconnect_calls > 0 =>
                connections[i].connect_calls > 0
          /\ connections[i].disconnect_calls = 0 => connection[c] = i

\* C13: a Connection Context holds at most one Relay Handle; the handle is
\* constructed only by an admission whose identity check, authorization
\* check and session resolution succeeded (the admission may still fail
\* afterwards, in prepare); it is absent after the disconnect and never
\* constructed again; disconnect is invoked only after connect was invoked
\* on the same handle.
C13_HandleOwnership ==
    \A c \in Conns :
        /\ HandleHeldOnce(c)
        /\ HandlesOf(c) # {} => ChecksPassed(c)

\* the handle of an admitted connection was connected and disconnected, and
\* the context holds it no more
C13_Witness ==
    /\ pc[1] = "closed" /\ connection[1] = 0
    /\ Cardinality(HandlesOf(1)) = 1
    /\ TheHandle(1).disconnect_calls = 1 /\ TheHandle(1).connect_calls = 1

\* C13 as first stated: the handle is created only by a successful admission
C13_HandleOnlyBySuccessfulAdmission ==
    \A c \in Conns :
        /\ HandleHeldOnce(c)
        /\ HandlesOf(c) # {} => ~AdmissionFailed(c)

\* ------------------------------------------------------------------------
\* the session token the request of handler c asks for
SessionAsked(c) ==
    IF HasSessionId(request[c].session_id)
    THEN request[c].session_id.s ELSE DefaultSession
\* admission has run to completion for handler c
AdmissionComplete(c) ==
    /\ ChecksPassed(c)
    /\ Cardinality(HandlesOf(c)) = 1
    /\ TheHandle(c).session = SessionAsked(c)
    /\ TheHandle(c).prepare_state \in {"none", "done"}
\* the handshake of handler c was accepted (and negotiation has happened)
Accepted(c) == status[c] = "101"
Connected(c) == HandlesOf(c) # {} /\ TheHandle(c).connect_calls > 0
Relaying(c) == HandlesOf(c) # {} /\ TheHandle(c).incoming # <<>>

\* C14: per connection, admission (identity check, authorization check,
\* session resolution, Relay Handle construction, token assignment) is
\* complete before the handshake is accepted; negotiation happens in the
\* handshake, after admission and before connect; connect is invoked only
\* after the handshake; no frame is relayed before negotiation; nothing of
\* this happens without a successful admission.
C14_StrictSequencing ==
    /\ [](\A c \in Conns :
            /\ Accepted(c) => AdmissionComplete(c)
            /\ Connected(c) => Accepted(c)
            /\ Relaying(c) => Accepted(c) /\ Connected(c))
    /\ [][\A c \in Conns :
            /\ Accepted(c)' /\ ~Accepted(c) =>
                  /\ AdmissionComplete(c) /\ ~Connected(c) /\ ~Relaying(c)
                  /\ selected'[c] =
                        select_subprotocol(TheHandle(c).kernel_ws_protocol,
                                           request[c].subprotocols)
            /\ selected'[c] # selected[c] => Accepted(c)' /\ ~Accepted(c)
            /\ Connected(c)' /\ ~Connected(c) => Accepted(c)]_vars

\* a connection that passed admission with a prepare step, was accepted,
\* connected and relays
C14_Witness ==
    /\ Accepted(1) /\ Relaying(1)
    /\ TheHandle(1).prepare_state = "done"
    /\ selected[1] # None

\* ------------------------------------------------------------------------
\* pre_get got as far as the session branch of lines 55-58 for handler c
PastSessionBranch(c) == pc[c] # "idle" /\ ChecksPassed(c)
Warned(c, text) == \E j \in 1..Len(log[c]) : log[c][j] = text
\* nothing but a failing prepare step ended the admission of handler c
NotFailedBySession(c) ==
    AdmissionFailed(c) => TheHandle(c).prepare_state = "failed"

\* C15: when the request carries a non-empty session_id, the Relay Handle's
\* session token equals it after admission; when it carries none, the
\* admission goes on, the condition is only logged, and the token stays
\* the default of the Relay Handle.
C15_SessionToken ==
    \A c \in Conns :
        PastSessionBranch(c) =>
            /\ HandlesOf(c) # {}
            /\ HasSessionId(request[c].session_id) =>
                  TheHandle(c).session = request[c].session_id.s
            /\ request[c].session_id = None =>
                  /\ TheHandle(c).session = DefaultSession
                  /\ Warned(c, "No session ID specified")
                  /\ NotFailedBySession(c)

\* an admitted connection whose handle carries the session_id of the request
C15_Witness ==
    /\ pc[1] = "admitted"
    /\ request[1].session_id = JStr(Txt("s1"))
    /\ TheHandle(1).session = Txt("s1")

\* C15 as first stated: whenever session_id is present, the session token
\* equals its value
C15_PresentSessionIdIsSet ==
    \A c \in Conns :
        PastSessionBranch(c) =>
            /\ HandlesOf(c) # {}
            /\ request[c].session_id # None =>
                  TheHandle(c).session = request[c].session_id.s
            /\ request[c].session_id = None =>
                  /\ TheHandle(c).session = DefaultSession
                  /\ Warned(c, "No session ID specified")
                  /\ NotFailedBySession(c)

\* ------------------------------------------------------------------------
\* C16: on a connection whose request has no forwarded-credential header, an
\* eligible execute_request is still rewritten: it reaches the Relay Handle
\* as an envelope whose content.code assigns the text None (the text of the
\* absent value) and then holds the original code unchanged; the rest of
\* the envelope is that of the input.
C16_MissingCredential ==
    \A c \in Conns : \A j \in Relayed(c) :
        ( /\ request[c].token = None
          /\ Eligible(In(c, j))
          /\ CodeOf(In(c, j)).t = "str" ) =>
            /\ ParsesToObject(Out(c, j))
            /\ SameBut(TopLevel(Out(c, j)), TopLevel(In(c, j)), Txt("content"))
            /\ HeaderOf(Out(c, j)) = HeaderOf(In(c, j))
            /\ SameBut(ContentOf(Out(c, j)), ContentOf(In(c, j)), Txt("code"))
            /\ CodeOf(Out(c, j)) =
                  JStr(ExpectedCode(Txt("None"), CodeOf(In(c, j)).s))

\* an execute_request rewritten on a connection without the header
C16_Witness ==
    \E c \in Conns : \E j \in Relayed(c) :
        /\ request[c].token = None
        /\ Eligible(In(c, j))
        /\ CodeOf(In(c, j)) = JStr(Txt("print(1)"))
        /\ CodeOf(Out(c, j)) = JStr(ExpectedCode(Txt("None"), Txt("print(1)")))

\* ------------------------------------------------------------------------
\* C17: in every sequence of inbound frames each eligible execute_request is
\* forwarded with exactly one injected prefix followed by its own original
\* code, whatever came before it and whether or not its code already starts
\* with the prefix; a frame once forwarded is never altered; a frame the
\* backend emits reaches the client as emitted.
C17_RewriteOncePerFrame ==
    /\ [](\A c \in Conns : \A j \in Relayed(c) :
            ( Eligible(In(c, j)) /\ CodeOf(In(c, j)).t = "str" ) =>
                CodeOf(Out(c, j)) =
                    JStr(ExpectedCode(PyStr(request[c].token),
                                      CodeOf(In(c, j)).s)))
    /\ [][\A i \in 1..Len(connections) :
            \A j \in 1..Len(connections[i].incoming) :
                /\ Len(connections'[i].incoming) >= j
                /\ connections'[i].incoming[j] = connections[i].incoming[j]]_vars
    /\ [](\A c \in Conns :
            HandlesOf(c) # {} => written[c] = TheHandle(c).outgoing)

\* two execute_requests in a row, the second with code that already starts
\* with the prefix, and a frame from the backend
C17_Witness ==
    /\ HandlesOf(1) # {}
    /\ Len(TheHandle(1).incoming) = 2
    /\ In(1, 1) = ExecFrame
    /\ In(1, 2) = PrefixedFrame
    /\ request[1].token = TokA
    /\ CodeOf(Out(1, 1)) = JStr(ExpectedCode(Txt("TOK"), Txt("print(1)")))
    /\ CodeOf(Out(1, 2)) =
          JStr(ExpectedCode(Txt("TOK"),
                            ExpectedCode(Txt("TOK"), Txt("print(1)"))))
    /\ written[1] = <<TextFrame(Dumps(ExecuteRequest))>>

\* ------------------------------------------------------------------------
\* the step in which select_subprotocol runs for handler c
Negotiates(c) == Accepted(c)' /\ ~Accepted(c)
SameNegotiation(c, d) ==
    /\ Accepted(c) /\ Accepted(d)
    /\ TheHandle(c).kernel_ws_protocol = TheHandle(d).kernel_ws_protocol
    /\ request[c].subprotocols = request[d].subprotocols

\* C18: select_subprotocol changes neither the Connection Context nor any
\* Relay Handle (preferred sub-protocol, session token, lifecycle state
\* included), and two calls with the same preferred value and the same
\* offered list return the same selection.
C18_NegotiationPure ==
    /\ [][\A c \in Conns :
            Negotiates(c) =>
                /\ connections' = connections
                /\ connection' = connection
                /\ kernel_id' = kernel_id /\ request' = request
                /\ lookups' = lookups /\ log' = log
                /\ delivered' = delivered /\ written' = written]_vars
    /\ [](\A c \in Conns : \A d \in Conns :
            SameNegotiation(c, d) => selected[c] = selected[d])

\* two negotiations with the same preference and the same offer, both
\* selecting the preferred protocol
C18_Witness ==
    /\ SameNegotiation(1, 2)
    /\ TheHandle(1).kernel_ws_protocol = JStr(Txt("x"))
    /\ selected[1] = JStr(Txt("x")) /\ selected[2] = JStr(Txt("x"))

\* ------------------------------------------------------------------------
\* C19: a session_id that is present but empty is treated like an absent
\* one: the session token of the Relay Handle keeps its default, the
\* warning "No session ID specified" is logged, and the admission goes on.
C19_EmptySessionId ==
    \A c \in Conns :
        ( PastSessionBranch(c) /\ request[c].session_id = JStr(EmptyText) ) =>
            /\ HandlesOf(c) # {}
            /\ TheHandle(c).session = DefaultSession
            /\ Warned(c, "No session ID specified")
            /\ NotFailedBySession(c)

\* a connection admitted and accepted with an empty session_id
C19_Witness ==
    /\ Accepted(1)
    /\ request[1].session_id = JStr(EmptyText)
    /\ TheHandle(1).session = DefaultSession
    /\ Warned(1, "No session ID specified")

\* ------------------------------------------------------------------------
\* C20: when the Relay Handle has a prepare operation, admission invokes it
\* exactly once, on the stored handle with its session token already set
\* (or left at the default), and the handshake is accepted only after it
\* returned; when it fails, admission fails and connect is never invoked;
\* when the handle has none, the step is skipped and admission succeeds.
C20_PrepareStep ==
    \A c \in Conns : \A i \in HandlesOf(c) :
        LET made == connections[i] IN
        /\ made.has_prepare =>
              /\ made.prepare_calls = 1
              /\ made.prepare_saw = <<SessionAsked(c)>>
              /\ made.session = SessionAsked(c)
              /\ pc[c] = "prepare" => connection[c] = i
              /\ made.prepare_state = "pending" <=> pc[c] = "prepare"
              /\ Accepted(c) => made.prepare_state = "done"
              /\ made.prepare_state = "failed" =>
                    /\ AdmissionFailed(c)
                    /\ made.connect_calls = 0
        /\ ~made.has_prepare =>
              /\ made.prepare_calls = 0
              /\ made.prepare_state = "none"
              /\ ~AdmissionFailed(c)

\* prepare was invoked once with the session token of the request, it
\* returned, and the handshake was accepted afterwards
C20_Witness ==
    /\ Accepted(1)
    /\ TheHandle(1).has_prepare
    /\ TheHandle(1).prepare_calls = 1
    /\ TheHandle(1).prepare_state = "done"
    /\ TheHandle(1).prepare_saw = <<Txt("s1")>>

====
